---- MODULE Spec2Model ----
(***************************************************************************)
(* Watchlist screening run of Watchlist/watchlist_generator.py:            *)
(* Watchlist.main dispatches one get_stock_data task per stock for each    *)
(* window size and joins them with asyncio.gather; each task fetches the   *)
(* daily bars in a worker thread (the only await), then screens, enriches  *)
(* and reports on the event-loop thread.                                   *)
(*                                                                         *)
(* Prices are whole dollars, volumes whole shares; quotients are kept as   *)
(* numerator/denominator pairs so that round() is exact.  Volatility is    *)
(* carried in hundredths of a percent.                                     *)
(***************************************************************************)
EXTENDS Integers, Sequences, FiniteSets, TLC

\* ---------------------------------------------------------------- bounds
\* number of symbols in stocks_list.stocks
NumStocks == 2
\* number of window sizes of the run (the program's range(50, 60) has ten)
NumWindows == 2

\* ------------------------------------------------------ program constants
FirstWindow == 50
TODAY == 49
YESTERDAY == 48
MIN_BARS == 50
GAP_MIN == 2
EQUITY_MIN == 250000
RATIO_MIN == 3
SIZZLE_MIN == 100
PRICE_SENTINEL == 999

Stocks == 1..NumStocks
Windows == FirstWindow..(FirstWindow + NumWindows - 1)
LastWindow == FirstWindow + NumWindows - 1
Tasks == Stocks \X Windows
NoTask == <<0, 0>>

VARIABLES
    i,               \* main: the loop variable of "for i in range(50, 60)"
    main_pc,         \* main: "for", "gather", "summary", "end", "aborted"
    pc,              \* per task (stock, window): position of get_stock_data
    running,         \* the task that occupies the event-loop thread, or NoTask
    frame,           \* locals of the evaluation that last ran on the loop
    stocks_in_play,  \* self.stocks_in_play
    sizzlers,        \* self.sizzlers (a list)
    rows,            \* number of report rows printed so far
    summary          \* what the two summary lines printed, <<>> before that

vars == <<i, main_pc, pc, running, frame, stocks_in_play, sizzlers, rows, summary>>

\* ---------------------------------------------------------------- helpers
Abs(x) == IF x < 0 THEN -x ELSE x

Range(s) == {s[k] : k \in 1..Len(s)}

\* Python round(n/d) for d > 0: to the nearest integer, halves to even
Round(n, d) ==
    LET q == n \div d
        r == n % d
    IN  IF 2 * r < d THEN q
        ELSE IF 2 * r > d THEN q + 1
        ELSE IF q % 2 = 0 THEN q ELSE q + 1

\* len(stock_data): frames are functions on 0..n-1, as after reset_index()
Length(df) == Cardinality(DOMAIN df)

RECURSIVE SumCol(_, _, _, _)
\* df[col][lo:hi].sum() over the rows that exist
SumCol(df, col, lo, hi) ==
    IF lo >= hi THEN 0
    ELSE (IF lo \in DOMAIN df THEN df[lo][col] ELSE 0) + SumCol(df, col, lo + 1, hi)

\* the rows of df[col][lo:hi] that exist
Slice(df, lo, hi) == {k \in DOMAIN df : lo <= k /\ k < hi}

\* df[col][lo:hi].median(); the slice 0:49 of a frame that has row 49 holds
\* 49 rows, an odd number, whose median is the middle value
MedianCol(df, col, lo, hi) ==
    LET S == Slice(df, lo, hi)
        half == Cardinality(S) \div 2
    IN  CHOOSE x \in {df[k][col] : k \in S} :
            /\ Cardinality({k \in S : df[k][col] < x}) <= half
            /\ Cardinality({k \in S : df[k][col] <= x}) > half

\* ------------------------------------------------- what the providers return
Flat(c, v) == [Open |-> c, High |-> c, Low |-> c, Close |-> c, Volume |-> v]

\* n daily bars: history bars alternate (c0, v0) on even and (c1, v1) on odd
\* positions; position 49, when present, is the bar "today".  Quotes are
\* positive prices; volumes may be 0.  The screen reads rows 0..49 only, so
\* frames of more than 50 rows (windows 51..59) add nothing to it
Daily(n, c0, c1, v0, v1, today) ==
    [k \in 0..(n - 1) |->
        IF k = TODAY THEN today
        ELSE IF k % 2 = 0 THEN Flat(c0, v0) ELSE Flat(c1, v1)]

Green(v) == [Open |-> 102, High |-> 110, Low |-> 90, Close |-> 108, Volume |-> v]

DailySeries ==
    << Daily(50, 100, 100, 3000, 1000, Green(8000)),     \* passes; mean # median volume
      Daily(50, 100, 120, 3000, 3000, Green(12000)),    \* passes; volatile closes
      Daily(50, 100, 100, 3000, 3000, Green(9000)),     \* volume ratio exactly 3
      Daily(50, 100, 100, 3000, 3000,
            [Open |-> 102, High |-> 110, Low |-> 90, Close |-> 101, Volume |-> 12000]),
      Daily(50, 100, 100, 3000, 3000,
            [Open |-> 101, High |-> 110, Low |-> 90, Close |-> 108, Volume |-> 12000]),
      Daily(50, 100, 100, 2000, 2000, Green(8000)),     \* thin: equity volume 200,000
      Daily(50, 100, 100, 0, 0, Green(5000)),           \* no volume traded in the history
      Daily(50, 100, 100, 0, 0, Green(0)),              \* no volume traded at all
      Daily(49, 100, 100, 3000, 3000, Green(12000)) >>  \* one bar short

\* ticker.history either returns a frame (its place in DailySeries) or raises
\* (network, rate limit): place 0
HistoryResults == 0..Len(DailySeries)

TextPages == {[ok |-> TRUE, val |-> "text"], [ok |-> FALSE, val |-> ""]}

PricePages ==
    {[ok |-> TRUE, val |-> p] : p \in {95, 100, 105}} \cup {[ok |-> FALSE, val |-> 0]}

Minute(o, c, v) == [Open |-> o, Close |-> c, Volume |-> v]

\* the first bar carries the pre-market volume, the last one the closing auction
MinuteSessions ==
    { <<Minute(102, 103, 9000), Minute(103, 104, 100), Minute(104, 103, 500),
        Minute(103, 104, 100), Minute(104, 108, 8000)>>,
      <<Minute(102, 101, 9000), Minute(101, 104, 100), Minute(104, 106, 500),
        Minute(106, 107, 500), Minute(107, 106, 8000)>>,
      <<Minute(102, 103, 9000), Minute(103, 108, 8000)>> }

MinuteResults ==
    {[ok |-> TRUE, bars |-> m] : m \in MinuteSessions} \cup {[ok |-> FALSE, bars |-> << >>]}

\* ---------------------------------------------------------- DataCollector
get_current_price(page) == IF page.ok THEN page.val ELSE PRICE_SENTINEL

get_evidence_of_selling(res) ==
    IF ~res.ok THEN "No data"
    ELSE LET df == SubSeq(res.bars, 2, Len(res.bars) - 1)
         IN  IF Len(df) = 0 THEN "No data"
             ELSE LET top == CHOOSE k \in 1..Len(df) :
                                 /\ \A j \in 1..Len(df) : df[j].Volume <= df[k].Volume
                                 /\ \A j \in 1..(k - 1) : df[j].Volume < df[k].Volume
                  IN  IF df[top].Open >= df[top].Close THEN "Yes" ELSE "No"

\* round(sqrt(var(log returns)) * sqrt(252) * 100, 2) in hundredths of a percent,
\* tabulated: equal closes have log returns 0; closes alternating 100, 120 have
\* log returns +-ln(1.2), which gives 289.43
calculate_volatility(df) ==
    IF \A k \in Slice(df, 0, TODAY) : df[k].Close = df[0].Close THEN 0
    ELSE 28943

\* -------------------------------------------------------------- Watchlist
\* the comparison written with <= in place of <
closest_number_le(close, high, low) == Abs(close - high) <= Abs(close - low)

closest_number(close, high, low) == Abs(close - high) < Abs(close - low)

\* the screen with "round(vol_ratio) >= 3" in place of "> 3"
initial_screen_ge(df) ==
    IF ~({YESTERDAY, TODAY} \subseteq DOMAIN df) THEN "KeyError"
    ELSE LET high == df[YESTERDAY].High
             sumv == SumCol(df, "Volume", 0, TODAY)
             sumc == SumCol(df, "Close", 0, TODAY)
             med  == MedianCol(df, "Volume", 0, TODAY)
             n    == Cardinality(Slice(df, 0, TODAY))
         IN  IF ~(df[TODAY].Close > df[TODAY].Open) THEN "fail"
             ELSE IF high = 0
                  THEN (IF df[TODAY].Open = 0 THEN "ValueError" ELSE "OverflowError")
             ELSE IF ~(Round((df[TODAY].Open - high) * 100, high) >= GAP_MIN) THEN "fail"
             ELSE IF ~(sumc * med >= EQUITY_MIN * n) THEN "fail"
             ELSE IF sumv = 0
                  THEN (IF df[TODAY].Volume = 0 THEN "ValueError" ELSE "OverflowError")
             ELSE IF Round(df[TODAY].Volume * n, sumv) >= RATIO_MIN THEN "pass"
             ELSE "fail"

\* the screen with the equity-volume operand left out of the "and" chain
initial_screen_no_equity(df) ==
    IF ~({YESTERDAY, TODAY} \subseteq DOMAIN df) THEN "KeyError"
    ELSE LET high == df[YESTERDAY].High
             sumv == SumCol(df, "Volume", 0, TODAY)
             n    == Cardinality(Slice(df, 0, TODAY))
         IN  IF ~(df[TODAY].Close > df[TODAY].Open) THEN "fail"
             ELSE IF high = 0
                  THEN (IF df[TODAY].Open = 0 THEN "ValueError" ELSE "OverflowError")
             ELSE IF ~(Round((df[TODAY].Open - high) * 100, high) >= GAP_MIN) THEN "fail"
             ELSE IF sumv = 0
                  THEN (IF df[TODAY].Volume = 0 THEN "ValueError" ELSE "OverflowError")
             ELSE IF Round(df[TODAY].Volume * n, sumv) > RATIO_MIN THEN "pass"
             ELSE "fail"

\* lines 137-143: the exception the statements raise, or the screen's verdict.
\* A missing label 48 or 49 raises KeyError; round() of an infinite or NaN
\* quotient raises OverflowError (x/0) or ValueError (0/0); "and" evaluates
\* left to right and stops at the first false operand.
initial_screen(df) ==
    IF ~({YESTERDAY, TODAY} \subseteq DOMAIN df) THEN "KeyError"
    ELSE LET high == df[YESTERDAY].High
             sumv == SumCol(df, "Volume", 0, TODAY)
             sumc == SumCol(df, "Close", 0, TODAY)
             med  == MedianCol(df, "Volume", 0, TODAY)
             n    == Cardinality(Slice(df, 0, TODAY))
         IN  IF ~(df[TODAY].Close > df[TODAY].Open) THEN "fail"
             ELSE IF high = 0
                  THEN (IF df[TODAY].Open = 0 THEN "ValueError" ELSE "OverflowError")
             ELSE IF ~(Round((df[TODAY].Open - high) * 100, high) >= GAP_MIN) THEN "fail"
             ELSE IF ~(sumc * med >= EQUITY_MIN * n) THEN "fail"
             ELSE IF sumv = 0
                  THEN (IF df[TODAY].Volume = 0 THEN "ValueError" ELSE "OverflowError")
             ELSE IF Round(df[TODAY].Volume * n, sumv) > RATIO_MIN THEN "pass"
             ELSE "fail"

\* initial_screen of every frame the provider can return, evaluated once
Verdicts == [k \in 1..Len(DailySeries) |-> initial_screen(DailySeries[k])]

\* only "except IndexError"
caught_index_only(exc) == exc = "IndexError"

\* lines 159-162: the except clauses of get_stock_data
caught(exc) == exc \in {"KeyError", "IndexError"}

\* "or" in place of "and"
final_screen_or(momentum, evidence_of_selling) == momentum \/ evidence_of_selling = "No"

\* line 152
final_screen(momentum, evidence_of_selling) == momentum /\ evidence_of_selling = "No"

\* the append without "stock not in self.sizzlers"
sizzlers_after_unchecked(list, stock, vol) ==
    IF vol > SIZZLE_MIN * 100 THEN Append(list, stock) ELSE list

\* lines 157-158
sizzlers_after(list, stock, vol) ==
    IF vol > SIZZLE_MIN * 100 /\ stock \notin Range(list) THEN Append(list, stock)
    ELSE list

\* a join that returns with the first finished task
GatherResolvedAny(w) == \E s \in Stocks : pc[<<s, w>>] = "done"

\* line 175: gather returns its results once every task of the batch is done
GatherResolved(w) == \A s \in Stocks : pc[<<s, w>>] = "done"

\* mc, sf and sector are text that only the printed row shows; the frame keeps
\* the call, not the text
NoFrame ==
    [task |-> NoTask, at |-> "none", stock_data |-> << >>,
     current_price |-> 0, evidence_of_selling |-> "", vol |-> 0,
     momentum |-> FALSE, calls |-> {}, result |-> "none", row |-> FALSE,
     warned |-> FALSE,
     in_sizzlers |-> FALSE]

Init ==
    /\ i = FirstWindow
    /\ main_pc = "for"
    /\ pc = [t \in Tasks |-> "none"]
    /\ running = NoTask
    /\ frame = NoFrame
    /\ stocks_in_play = 0
    /\ sizzlers = << >>
    /\ rows = 0
    /\ summary = << >>

\* lines 169-174: print the window header, create one task per stock
Dispatch ==
    /\ main_pc = "for"
    /\ running = NoTask
    /\ pc' = [t \in Tasks |-> IF t[2] = i THEN "new" ELSE pc[t]]
    /\ main_pc' = "gather"
    /\ UNCHANGED <<i, running, frame, stocks_in_play, sizzlers, rows, summary>>

\* lines 128-132: a new task runs up to "await asyncio.to_thread(...)"; the
\* loop starts the tasks in the order create_task queued them
StartTask(t) ==
    /\ main_pc = "gather"
    /\ running = NoTask
    /\ pc[t] = "new"
    /\ \A s \in Stocks : s < t[1] => pc[<<s, t[2]>>] # "new"
    /\ pc' = [pc EXCEPT ![t] = "awaiting"]
    /\ UNCHANGED <<i, main_pc, running, frame, stocks_in_play, sizzlers, rows, summary>>

\* line 132: the worker thread finishes ticker.history; this needs no loop
FetchDone(t) ==
    /\ pc[t] = "awaiting"
    /\ pc' = [pc EXCEPT ![t] = "ready"]
    /\ UNCHANGED <<i, main_pc, running, frame, stocks_in_play, sizzlers, rows, summary>>

\* a task whose fetch is finished continues only when the loop thread is free
ResumeEnabled(t) ==
    /\ main_pc = "gather"
    /\ running = NoTask
    /\ pc[t] = "ready"
    /\ \A s \in Stocks : pc[<<s, t[2]>>] # "new"

\* lines 132-143: the await delivers the thread's result or its exception,
\* then the bars are screened
Resume(t, res) ==
    /\ ResumeEnabled(t)
    /\ LET out == IF res # 0 THEN Verdicts[res] ELSE "FetchError"
           df  == IF res # 0 THEN DailySeries[res] ELSE << >>
           f   == [NoFrame EXCEPT !.task = t, !.stock_data = df,
                                  !.warned = res # 0 /\ Length(df) < MIN_BARS]
       IN  IF out = "pass"
           THEN /\ pc' = [pc EXCEPT ![t] = "running"]
                /\ running' = t
                /\ frame' = [f EXCEPT !.at = "get_market_cap"]
           ELSE IF out = "fail"
           THEN /\ pc' = [pc EXCEPT ![t] = "done"]
                /\ running' = NoTask
                /\ frame' = [f EXCEPT !.result = "screened"]
           ELSE /\ pc' = [pc EXCEPT ![t] = IF caught(out) THEN "done" ELSE "raised"]
                /\ running' = NoTask
                /\ frame' = [f EXCEPT !.result = out]
    /\ UNCHANGED <<i, main_pc, stocks_in_play, sizzlers, rows, summary>>

\* line 145: requests.get inside the coroutine; the loop thread waits for it.
\* The page, or the fault that get_market_cap turns into "No data", only
\* changes the text of the row
MarketCap(page) ==
    /\ running # NoTask
    /\ frame.at = "get_market_cap"
    /\ frame' = [frame EXCEPT !.at = "get_short_float",
                              !.calls = @ \cup {"get_market_cap"}]
    /\ UNCHANGED <<i, main_pc, pc, running, stocks_in_play, sizzlers, rows, summary>>

\* line 146
ShortFloat(page) ==
    /\ running # NoTask
    /\ frame.at = "get_short_float"
    /\ frame' = [frame EXCEPT !.at = "get_sector",
                              !.calls = @ \cup {"get_short_float"}]
    /\ UNCHANGED <<i, main_pc, pc, running, stocks_in_play, sizzlers, rows, summary>>

\* line 147
Sector(page) ==
    /\ running # NoTask
    /\ frame.at = "get_sector"
    /\ frame' = [frame EXCEPT !.at = "get_current_price",
                              !.calls = @ \cup {"get_sector"}]
    /\ UNCHANGED <<i, main_pc, pc, running, stocks_in_play, sizzlers, rows, summary>>

\* line 148
CurrentPrice(page) ==
    /\ running # NoTask
    /\ frame.at = "get_current_price"
    /\ frame' = [frame EXCEPT !.current_price = get_current_price(page),
                              !.at = "get_evidence_of_selling",
                              !.calls = @ \cup {"get_current_price"}]
    /\ UNCHANGED <<i, main_pc, pc, running, stocks_in_play, sizzlers, rows, summary>>

\* line 149
EvidenceOfSelling(res) ==
    /\ running # NoTask
    /\ frame.at = "get_evidence_of_selling"
    /\ frame' = [frame EXCEPT !.evidence_of_selling = get_evidence_of_selling(res),
                              !.at = "report",
                              !.calls = @ \cup {"get_evidence_of_selling"}]
    /\ UNCHANGED <<i, main_pc, pc, running, stocks_in_play, sizzlers, rows, summary>>

\* lines 150-158: volatility, momentum, final screen, row, counters
Report ==
    /\ running # NoTask
    /\ frame.at = "report"
    /\ LET df  == frame.stock_data
           v   == calculate_volatility(df)
           m   == closest_number(frame.current_price, df[TODAY].High, df[TODAY].Low)
           hit == final_screen(m, frame.evidence_of_selling)
       IN  /\ frame' = [frame EXCEPT !.vol = v, !.momentum = m, !.at = "none",
                                     !.result = IF hit THEN "passed" ELSE "discarded",
                                     !.row = hit,
                                     !.in_sizzlers = hit /\ running[1] \in Range(sizzlers)]
           /\ rows' = IF hit THEN rows + 1 ELSE rows
           /\ stocks_in_play' = IF hit THEN stocks_in_play + 1 ELSE stocks_in_play
           /\ sizzlers' = IF hit THEN sizzlers_after(sizzlers, running[1], v) ELSE sizzlers
    /\ pc' = [pc EXCEPT ![running] = "done"]
    /\ running' = NoTask
    /\ UNCHANGED <<i, main_pc, summary>>

\* lines 175-176, 169: every task is done; clear the list, next window
GatherReturn ==
    /\ main_pc = "gather"
    /\ running = NoTask
    /\ GatherResolved(i)
    /\ IF i < LastWindow
       THEN i' = i + 1 /\ main_pc' = "for"
       ELSE i' = i /\ main_pc' = "summary"
    /\ frame' = NoFrame
    /\ UNCHANGED <<pc, running, stocks_in_play, sizzlers, rows, summary>>

\* line 175, 183: gather re-raises the first exception of a task into main;
\* main ends with it and asyncio.run cancels the tasks that are left
GatherRaise ==
    /\ main_pc = "gather"
    /\ running = NoTask
    /\ \E s \in Stocks : pc[<<s, i>>] = "raised"
    /\ main_pc' = "aborted"
    /\ pc' = [t \in Tasks |->
                IF pc[t] \in {"new", "awaiting", "ready"} THEN "cancelled" ELSE pc[t]]
    /\ UNCHANGED <<i, running, frame, stocks_in_play, sizzlers, rows, summary>>

\* lines 177-178
Summary ==
    /\ main_pc = "summary"
    /\ summary' = <<stocks_in_play, Len(sizzlers)>>
    /\ main_pc' = "end"
    /\ UNCHANGED <<i, pc, running, frame, stocks_in_play, sizzlers, rows>>

Next ==
    \/ Dispatch
    \/ \E t \in Tasks : StartTask(t)
    \/ \E t \in Tasks : FetchDone(t)
    \/ \E t \in Tasks, res \in HistoryResults : Resume(t, res)
    \/ \E page \in TextPages : MarketCap(page)
    \/ \E page \in TextPages : ShortFloat(page)
    \/ \E page \in TextPages : Sector(page)
    \/ \E page \in PricePages : CurrentPrice(page)
    \/ \E res \in MinuteResults : EvidenceOfSelling(res)
    \/ Report
    \/ GatherReturn
    \/ GatherRaise
    \/ Summary

Spec == Init /\ [][Next]_vars

\* ------------------------------------------------------------ properties
Resolved == {"done", "raised", "cancelled"}

\* the place of a frame among the frames the provider returns
SeriesOf(df) == CHOOSE k \in 1..Len(DailySeries) : DailySeries[k] = df

\* the four conditions of the initial numeric screen, as the specification words them
NotGreen(df) == df[TODAY].Close <= df[TODAY].Open

GapRounded(df) == Round((df[TODAY].Open - df[YESTERDAY].High) * 100, df[YESTERDAY].High)

EquityTimesN(df) == SumCol(df, "Close", 0, TODAY) * MedianCol(df, "Volume", 0, TODAY)

AverageIsZero(df) == SumCol(df, "Volume", 0, TODAY) = 0

RatioRounded(df) == Round(df[TODAY].Volume * 49, SumCol(df, "Volume", 0, TODAY))

FailsScreen(df) ==
    \/ NotGreen(df)
    \/ GapRounded(df) < 2
    \/ EquityTimesN(df) < 250000 * 49
    \/ (~AverageIsZero(df) /\ RatioRounded(df) <= 3)

FullSeries == {k \in 1..Len(DailySeries) : Length(DailySeries[k]) >= 50}

FailsScreenAt == [k \in FullSeries |-> FailsScreen(DailySeries[k])]

AverageIsZeroAt ==
    [k \in FullSeries |->
        /\ \A j \in 0..48 : DailySeries[k][j].Volume >= 0
        /\ AverageIsZero(DailySeries[k])]

HasFullSeries == frame.task # NoTask /\ Length(frame.stock_data) >= 50

Count(list, x) == Cardinality({k \in 1..Len(list) : list[k] = x})

\* C1: no evaluation of window N+1 exists before every evaluation of window N
\* has resolved (and with it printed its row, if any)
C1_BatchOrder ==
    \A s1 \in Stocks, s2 \in Stocks, w \in Windows :
        (w + 1 \in Windows /\ pc[<<s2, w + 1>>] # "none") => pc[<<s1, w>>] \in Resolved

C1_Witness == rows > 0 /\ \E s \in Stocks : pc[<<s, FirstWindow + 1>>] = "awaiting"

\* C2: a fault inside one evaluation never cancels a sibling and never keeps
\* main from the later batches and the summary
C2_FaultContained == main_pc # "aborted" /\ \A t \in Tasks : pc[t] # "cancelled"

\* C3: an evaluation whose bars fail one of the four initial-screen conditions
\* makes no enrichment call and produces no result
C3_ShortCircuit ==
    \/ ~HasFullSeries
    \/ frame.calls = {} /\ ~frame.row /\ frame.result # "passed"
    \/ ~FailsScreenAt[SeriesOf(frame.stock_data)]

C3_Witness ==
    /\ HasFullSeries
    /\ frame.result = "screened"
    /\ ~NotGreen(frame.stock_data)
    /\ GapRounded(frame.stock_data) >= 2
    /\ EquityTimesN(frame.stock_data) >= 250000 * 49
    /\ RatioRounded(frame.stock_data) = 3

\* the last step of an evaluation that reached the enrichment calls
C4_Finishing == running # NoTask /\ running' = NoTask

C4_Passes ==
    /\ C4_Finishing
    /\ HasFullSeries
    /\ ~FailsScreenAt[SeriesOf(frame.stock_data)]
    /\ frame'.momentum
    /\ frame.evidence_of_selling = "No"

C4_Step ==
    IF C4_Passes
    THEN stocks_in_play' = stocks_in_play + 1 /\ rows' = rows + 1
    ELSE stocks_in_play' = stocks_in_play /\ sizzlers' = sizzlers /\ rows' = rows

\* C4: stocks_in_play grows by exactly 1 when an evaluation passes both screens
\* and by nothing otherwise, a discarded evaluation leaves both accumulators
\* alone, and the summary's count is the number of rows printed
C4_CountsRows ==
    /\ [](stocks_in_play = rows /\ (main_pc = "end" => summary[1] = rows))
    /\ [][C4_Step]_vars

C4_Witness == main_pc = "end" /\ summary[1] = 2 /\ rows = 2

\* C5: sizzlers never holds a symbol twice, and a symbol that has just passed
\* with volatility above 100 is in it exactly once
C5_NoDuplicates ==
    /\ \A a \in 1..Len(sizzlers), b \in 1..Len(sizzlers) :
           a # b => sizzlers[a] # sizzlers[b]
    /\ (frame.result = "passed" /\ frame.vol > 100 * 100)
           => Count(sizzlers, frame.task[1]) = 1

C5_Witness ==
    /\ frame.result = "passed"
    /\ frame.vol > 100 * 100
    /\ frame.in_sizzlers
    /\ frame.task[2] > FirstWindow

\* C6 as stated: a row of a batch is on the report only when every evaluation
\* of that batch has resolved
C6_AfterBatchResolved ==
    frame.row => \A s \in Stocks : pc[<<s, frame.task[2]>>] \in Resolved

C6_Step ==
    (rows' # rows \/ stocks_in_play' # stocks_in_play \/ sizzlers' # sizzlers)
        => /\ main_pc = "gather" /\ main_pc' = "gather"
           /\ running # NoTask
           /\ running[2] = i
           /\ running' = NoTask
           /\ pc'[running] = "done"

\* C6 as amended: rows and both accumulators change only in the last step of
\* an evaluation of the current batch, on the loop thread, while main is
\* suspended in that batch's gather
C6_ByEvaluationInBatch == [][C6_Step]_vars

C6_Witness ==
    /\ frame.row
    /\ \E s \in Stocks : pc[<<s, frame.task[2]>>] \in {"awaiting", "ready"}

C7_Step ==
    \A t \in Tasks :
        (/\ pc[t] = "ready" /\ frame'.task = t
         /\ frame'.result # "FetchError"
         /\ Length(frame'.stock_data) < 50)
        => /\ pc'[t] = "done"
           /\ running' = NoTask
           /\ frame'.result = "KeyError"
           /\ frame'.calls = {} /\ ~frame'.row
           /\ rows' = rows /\ stocks_in_play' = stocks_in_play /\ sizzlers' = sizzlers
           /\ main_pc' = main_pc
           /\ \A u \in Tasks : u # t => pc'[u] = pc[u]

\* C7: with fewer than 50 bars the evaluation ends on the caught KeyError: no
\* enrichment call, no row, accumulators and the other tasks untouched
C7_ShortSeriesSkipped ==
    /\ [][C7_Step]_vars
    /\ []((frame.task # NoTask /\ frame.result # "FetchError"
             /\ Length(frame.stock_data) < 50)
          => (pc[frame.task] = "done" /\ frame.calls = {} /\ ~frame.row))

C7_Witness ==
    /\ frame.result = "KeyError"
    /\ Length(frame.stock_data) = 49
    /\ pc[frame.task] = "done"
    /\ \E s \in Stocks : pc[<<s, frame.task[2]>>] \in {"awaiting", "ready"}

Reported == frame.result \in {"passed", "discarded"}

Dist1 == Abs(frame.current_price - frame.stock_data[TODAY].High)

Dist2 == Abs(frame.current_price - frame.stock_data[TODAY].Low)

\* C9 as stated: true when closer to the high, false when closer to the low,
\* true on a tie
C9_TieIsTrue ==
    Reported => /\ Dist1 < Dist2 => frame.momentum
                /\ Dist1 > Dist2 => ~frame.momentum
                /\ Dist1 = Dist2 => frame.momentum

\* C9 as amended: true when closer to the high, false when closer to the low,
\* false on a tie
C9_TieIsFalse ==
    Reported => /\ Dist1 < Dist2 => frame.momentum
                /\ Dist1 > Dist2 => ~frame.momentum
                /\ Dist1 = Dist2 => ~frame.momentum

C9_Witness == Reported /\ Dist1 = Dist2 /\ ~frame.momentum

FetchCalls ==
    {"get_market_cap", "get_short_float", "get_sector", "get_current_price",
     "get_evidence_of_selling"}

\* C10: while an evaluation waits on one of its fetches, an evaluation of the
\* same batch whose own fetch has finished can take its next step
C10_NoBlocking ==
    \A u \in Tasks :
        (/\ running # NoTask /\ frame.at \in FetchCalls
         /\ u # running /\ u[2] = running[2]
         /\ pc[u] = "ready")
        => ResumeEnabled(u)

====
